---------------------------- MODULE Spec2Model ----------------------------
(***************************************************************************)
(* MindMate: the emotion classification, risk accumulation and response    *)
(* composition pipeline of src/emotions.py, src/responses.py and the       *)
(* session handlers of src/app.py.                                         *)
(*                                                                         *)
(* A Python str is modelled as a sequence of one-character strings, so     *)
(* that str.lower(), str.split(), str.strip() and the substring test       *)
(* `k in s` are computed as Python computes them.  Python's None is the    *)
(* record None; a float is an integer number of thousandths.  Characters   *)
(* outside ASCII in the reply templates (emoji, bullets) and the newlines  *)
(* that separate the fragments of a reply are left out of the literals.    *)
(***************************************************************************)
EXTENDS Integers, Sequences, FiniteSets, TLC

(***************************************************************************)
(* Bounds of the model.                                                    *)
(***************************************************************************)
\* a message is at most MaxPhrases phrases of Vocabulary joined by blanks
MaxPhrases == 1
\* the sessions hold at most MaxTurns chat turns together
MaxTurns == 4

(***************************************************************************)
(* Python values and str primitives.                                       *)
(***************************************************************************)
None == [none |-> TRUE]

\* a float, or a JSON number, in thousandths
Float(milli) == [milli |-> milli]

IsNumber(v) == v # None

Min(a, b) == IF a < b THEN a ELSE b
Max(a, b) == IF a > b THEN a ELSE b

UpperCase == <<"A","B","C","D","E","F","G","H","I","J","K","L","M",
               "N","O","P","Q","R","S","T","U","V","W","X","Y","Z">>
LowerCase == <<"a","b","c","d","e","f","g","h","i","j","k","l","m",
               "n","o","p","q","r","s","t","u","v","w","x","y","z">>

\* str.lower() on one character
LowerChar(c) ==
    IF \E i \in 1..Len(UpperCase) : UpperCase[i] = c
    THEN LowerCase[CHOOSE i \in 1..Len(UpperCase) : UpperCase[i] = c]
    ELSE c

\* str.lower()
Lower(s) == [i \in 1..Len(s) |-> LowerChar(s[i])]

WhiteSpace == {" "}

\* `k in s` for two str: k occurs in s as a contiguous substring
Contains(k, s) ==
    \/ k = << >>
    \/ \E i \in 0..(Len(s) - Len(k)) :
           s[i + 1] = k[1] /\ SubSeq(s, i + 1, i + Len(k)) = k

\* any(keyword in s for keyword in keywords)
AnyKeywordIn(keywords, s) ==
    \E i \in 1..Len(keywords) : Contains(keywords[i], s)

\* str.split(): the maximal runs of non-whitespace characters, in order
RECURSIVE SplitFrom(_, _, _)
SplitFrom(s, i, word) ==
    IF i > Len(s)
    THEN IF word = <<>> THEN <<>> ELSE <<word>>
    ELSE IF s[i] \in WhiteSpace
         THEN IF word = <<>>
              THEN SplitFrom(s, i + 1, <<>>)
              ELSE <<word>> \o SplitFrom(s, i + 1, <<>>)
         ELSE SplitFrom(s, i + 1, Append(word, s[i]))

Split(s) == SplitFrom(s, 1, <<>>)

\* set(s.lower().split())
WordSet(s) == LET w == Split(Lower(s)) IN {w[i] : i \in 1..Len(w)}

\* str.strip(): leading and trailing whitespace removed
RECURSIVE LStrip(_)
LStrip(s) == IF s # <<>> /\ Head(s) \in WhiteSpace THEN LStrip(Tail(s)) ELSE s

RECURSIVE RStrip(_)
RStrip(s) ==
    IF s # <<>> /\ s[Len(s)] \in WhiteSpace
    THEN RStrip(SubSeq(s, 1, Len(s) - 1))
    ELSE s

\* the message taken as it was sent
Strip_nothing(s) == s

Strip(s) == RStrip(LStrip(s))

(***************************************************************************)
(* The messages of the model: phrases joined by single blanks.            *)
(***************************************************************************)
Vocabulary ==
    { <<"I"," ","w","a","n","t"," ","t","o"," ","E","N","D"," ","i","t"," ","a","l","l">>,
      <<"h","o","p","e","l","e","s","s">>,
      <<"s","a","d"," ","a","n","d"," ","l","o","n","e","l","y">>,
      <<"a","n","g","r","y">>,
      <<"h","a","p","p","y">>,
      <<"h","e","l","l","o">>,
      <<"t","i","r","e","d">>,
      <<"s","t","r","e","s","s","e","d">>,
      <<"o","k","a","y">>,
      <<"u","n","h","a","p","p","y">>,
      <<"h","o","p","e","l","e","s","s"," ","s","a","d"," ","a","n","d"," ","l","o","n","e","l","y">>,
      <<"I"," ","c","a","n","'","t"," ","g","o"," ","o","n",","," ","I","'","m"," ","a"," ","b","u","r","d","e","n">>,
      <<"I"," ","h","a","t","e"," ","f","e","e","l","i","n","g"," ","w","o","r","t","h","l","e","s","s">> }

RECURSIVE Join(_)
Join(ps) ==
    IF Len(ps) = 1 THEN ps[1] ELSE ps[1] \o <<" ">> \o Join(Tail(ps))

Texts ==
    { Join(ps) : ps \in UNION { [1..n -> Vocabulary] : n \in 1..MaxPhrases } }

(***************************************************************************)
(* src/emotions.py: the Lexicon of detect_emotion_rule_based.              *)
(***************************************************************************)
kw_severe_distress ==
    << <<"s","u","i","c","i","d","e">>,
       <<"k","i","l","l"," ","m","y","s","e","l","f">>,
       <<"e","n","d"," ","i","t"," ","a","l","l">>,
       <<"w","a","n","t"," ","t","o"," ","d","i","e">>,
       <<"h","o","p","e","l","e","s","s">>,
       <<"w","o","r","t","h","l","e","s","s">>,
       <<"n","o"," ","r","e","a","s","o","n"," ","t","o"," ","l","i","v","e">>,
       <<"g","i","v","e"," ","u","p"," ","o","n"," ","l","i","f","e">> >>

kw_sadness ==
    << <<"s","a","d">>,
       <<"d","e","p","r","e","s","s","e","d">>,
       <<"d","o","w","n">>,
       <<"u","n","h","a","p","p","y">>,
       <<"c","r","y","i","n","g">>,
       <<"t","e","a","r","s">>,
       <<"l","o","n","e","l","y">>,
       <<"e","m","p","t","y">>,
       <<"h","e","a","r","t","b","r","o","k","e","n">>,
       <<"m","i","s","e","r","a","b","l","e">>,
       <<"g","l","o","o","m","y">> >>

kw_anxiety ==
    << <<"a","n","x","i","o","u","s">>,
       <<"w","o","r","r","i","e","d">>,
       <<"n","e","r","v","o","u","s">>,
       <<"s","c","a","r","e","d">>,
       <<"a","f","r","a","i","d">>,
       <<"p","a","n","i","c">>,
       <<"s","t","r","e","s","s">>,
       <<"o","v","e","r","w","h","e","l","m","e","d">>,
       <<"t","e","r","r","i","f","i","e","d">>,
       <<"f","e","a","r">>,
       <<"u","n","e","a","s","y">> >>

kw_anger ==
    << <<"a","n","g","r","y">>,
       <<"m","a","d">>,
       <<"f","u","r","i","o","u","s">>,
       <<"h","a","t","e">>,
       <<"i","r","r","i","t","a","t","e","d">>,
       <<"f","r","u","s","t","r","a","t","e","d">>,
       <<"a","n","n","o","y","e","d">>,
       <<"r","a","g","e">>,
       <<"p","i","s","s","e","d">>,
       <<"b","i","t","t","e","r">>,
       <<"r","e","s","e","n","t","f","u","l">> >>

kw_joy ==
    << <<"h","a","p","p","y">>,
       <<"g","r","e","a","t">>,
       <<"e","x","c","e","l","l","e","n","t">>,
       <<"w","o","n","d","e","r","f","u","l">>,
       <<"a","m","a","z","i","n","g">>,
       <<"f","a","n","t","a","s","t","i","c">>,
       <<"j","o","y","f","u","l">>,
       <<"e","x","c","i","t","e","d">>,
       <<"t","h","r","i","l","l","e","d">>,
       <<"d","e","l","i","g","h","t","e","d">>,
       <<"c","h","e","e","r","f","u","l">>,
       <<"g","o","o","d">> >>

kw_neutral ==
    << <<"o","k","a","y">>,
       <<"f","i","n","e">>,
       <<"a","l","r","i","g","h","t">>,
       <<"n","o","r","m","a","l">>,
       <<"a","v","e","r","a","g","e">> >>

\* the dict emotion_keywords, in its insertion order
emotion_keywords ==
    << [emotion |-> "severe_distress", keywords |-> kw_severe_distress],
       [emotion |-> "sadness",         keywords |-> kw_sadness],
       [emotion |-> "anxiety",         keywords |-> kw_anxiety],
       [emotion |-> "anger",           keywords |-> kw_anger],
       [emotion |-> "joy",             keywords |-> kw_joy],
       [emotion |-> "neutral",         keywords |-> kw_neutral] >>

\* sum(1 for keyword in keywords if keyword in text_lower)
KeywordScore(keywords, text_lower) ==
    Cardinality({ i \in 1..Len(keywords) : Contains(keywords[i], text_lower) })

\* max(d, key=d.get) over the categories with a positive score: the first
\* category, in insertion order, whose score is the largest
MaxByScore_last(score) ==
    CHOOSE i \in DOMAIN score :
        /\ score[i] > 0
        /\ \A j \in DOMAIN score : score[j] <= score[i]
        /\ \A j \in DOMAIN score : j > i => score[j] < score[i]

MaxByScore(score) ==
    CHOOSE i \in DOMAIN score :
        /\ score[i] > 0
        /\ \A j \in DOMAIN score : score[j] <= score[i]
        /\ \A j \in DOMAIN score : j < i => score[j] < score[i]

detect_emotion_rule_based(text) ==
    LET text_lower == Lower(text)
        score == [i \in 1..Len(emotion_keywords) |->
                     KeywordScore(emotion_keywords[i].keywords, text_lower)]
    IN  IF \A i \in DOMAIN score : score[i] = 0
        THEN [emotion |-> "neutral", confidence |-> Float(500), method |-> "rule_based"]
        ELSE LET best == MaxByScore(score)
                 max_score == score[best]
                 total_words == Len(Split(text_lower))
             IN  [emotion    |-> emotion_keywords[best].emotion,
                  \* min(max_score / max(total_words * 0.3, 1), 0.95)
                  confidence |-> Float(Min((max_score * 10000) \div Max(total_words * 3, 10), 950)),
                  method     |-> "rule_based"]

(***************************************************************************)
(* src/responses.py: calculate_risk_score.                                 *)
(***************************************************************************)
high_risk_keywords ==
    << <<"s","u","i","c","i","d","e">>,
       <<"k","i","l","l"," ","m","y","s","e","l","f">>,
       <<"e","n","d"," ","i","t"," ","a","l","l">>,
       <<"w","a","n","t"," ","t","o"," ","d","i","e">>,
       <<"n","o"," ","r","e","a","s","o","n"," ","t","o"," ","l","i","v","e">>,
       <<"b","e","t","t","e","r"," ","o","f","f"," ","d","e","a","d">>,
       <<"h","a","r","m"," ","m","y","s","e","l","f">>,
       <<"c","a","n","'","t"," ","g","o"," ","o","n">>,
       <<"g","i","v","e"," ","u","p"," ","o","n"," ","l","i","f","e">> >>

medium_risk_keywords ==
    << <<"h","o","p","e","l","e","s","s">>,
       <<"w","o","r","t","h","l","e","s","s">>,
       <<"n","o","b","o","d","y"," ","c","a","r","e","s">>,
       <<"h","a","t","e"," ","m","y","s","e","l","f">>,
       <<"f","a","i","l","u","r","e">>,
       <<"u","s","e","l","e","s","s">>,
       <<"b","u","r","d","e","n">>,
       <<"c","a","n","'","t"," ","d","o"," ","a","n","y","t","h","i","n","g"," ","r","i","g","h","t">>,
       <<"e","v","e","r","y","t","h","i","n","g"," ","i","s"," ","w","r","o","n","g">>,
       <<"n","o","t","h","i","n","g"," ","m","a","t","t","e","r","s">> >>

low_risk_keywords ==
    << <<"s","a","d">>,
       <<"d","e","p","r","e","s","s","e","d">>,
       <<"a","n","x","i","o","u","s">>,
       <<"w","o","r","r","i","e","d">>,
       <<"l","o","n","e","l","y">>,
       <<"e","m","p","t","y">>,
       <<"t","i","r","e","d">>,
       <<"e","x","h","a","u","s","t","e","d">>,
       <<"s","t","r","e","s","s","e","d">> >>

(***************************************************************************)
(* The reference corpora.  A pandas DataFrame is the record of its rows,  *)
(* a row the record of its columns; a corpus whose file is missing is None.*)
(***************************************************************************)
\* DataFrame.head(n)
HeadRows(df, n) == SubSeq(df.rows, 1, Min(n, Len(df.rows)))

\* datasets/goemotions.csv, with its text and emotion columns
GoEmotionsCorpus ==
    [rows |-> << [text    |-> <<"s","o"," ","A","N","G","R","Y"," ","a","n","d"," ","l","o","n","e","l","y">>,
                          emotion |-> "anger"],
                         [text    |-> <<"w","h","a","t"," ","a"," ","h","a","p","p","y"," ","d","a","y">>,
                          emotion |-> "joy"],
                         [text    |-> <<"f","e","e","l","i","n","g"," ","s","a","d">>,
                          emotion |-> "sadness"] >>]

\* the same file without its emotion column
GoEmotionsUnlabeled ==
    [rows |-> << [text |-> <<"s","o"," ","A","N","G","R","Y"," ","a","n","d"," ","l","o","n","e","l","y">>],
                         [text |-> <<"f","e","e","l","i","n","g"," ","s","a","d">>] >>]

\* datasets/condition.csv: text of the distressed group
ConditionCorpus ==
    [rows |-> << [text |-> <<"i"," ","f","e","e","l"," ","t","i","r","e","d"," ","a","n","d"," ","h","o","p","e","l","e","s","s">>],
                         [text |-> <<"s","o"," ","t","i","r","e","d">>],
                         [text |-> <<"i"," ","a","m"," ","n","o","t"," ","o","k","a","y">>] >>]

\* datasets/control.csv: text of the non-distressed group
ControlCorpus ==
    [rows |-> << [text |-> <<"h","e","l","l","o"," ","h","a","p","p","y"," ","d","a","y">>],
                         [text |-> <<"h","a","p","p","y"," ","b","u","t"," ","t","i","r","e","d">>],
                         [text |-> <<"t","i","r","e","d">>] >>]

\* the values load_goemotions_dataset() can return
GoEmotionsLoads == { None, GoEmotionsCorpus, GoEmotionsUnlabeled }

\* the values load_depression_datasets() can return (the scores corpus is
\* loaded and never read)
DepressionLoads ==
    { [control |-> None,          condition |-> None],
      [control |-> None,          condition |-> ConditionCorpus],
      [control |-> ControlCorpus, condition |-> ConditionCorpus] }

VARIABLES
    HUGGING_FACE_API_KEY,   \* src/emotions.py:16, TRUE iff a key is configured
    GOEMOTIONS_DATA,        \* src/emotions.py:45
    DEPRESSION_DATASETS,    \* src/responses.py:61
    user_sessions,          \* src/app.py:28
    cookies,                \* the session ids handed to clients as cookies
    last,                   \* what the last call did and returned
    replies,                \* the replies of the calls made with the same inputs
    in_flight               \* the chat requests being served, one per server thread

vars == << HUGGING_FACE_API_KEY, GOEMOTIONS_DATA, DEPRESSION_DATASETS,
           user_sessions, cookies, last, replies, in_flight >>

\* the threads of the server, and none of them serving a request
Threads == {"t1", "t2"}

NoRequests == [t \in Threads |-> [pc |-> "idle"]]

\* the sample of both corpora compared against, src/responses.py:147,155
RiskSampleRows == 100

RECURSIVE SumOverlap(_, _)
SumOverlap(words, rows) ==
    IF rows = <<>> THEN 0
    ELSE (IF "text" \in DOMAIN Head(rows)
          THEN Cardinality(words \cap WordSet(Head(rows).text))
          ELSE 0) + SumOverlap(words, Tail(rows))

compare_with_depression_dataset(text) ==
    LET condition_df == DEPRESSION_DATASETS.condition
        control_df   == DEPRESSION_DATASETS.control
    IN  IF condition_df = None \/ control_df = None THEN 0
        ELSE LET words == WordSet(text)
                 condition_similarity ==
                     SumOverlap(words, HeadRows(condition_df, RiskSampleRows))
                 control_similarity ==
                     SumOverlap(words, HeadRows(control_df, RiskSampleRows))
             IN  \* condition_similarity > control_similarity * 1.5
                 IF 2 * condition_similarity > 3 * control_similarity THEN 2
                 ELSE IF condition_similarity > control_similarity THEN 1
                 ELSE 0

calculate_risk_score_medium_first(text, emotion) ==
    LET text_lower == Lower(text)
    IN  IF AnyKeywordIn(medium_risk_keywords, text_lower) THEN 2
        ELSE IF AnyKeywordIn(high_risk_keywords, text_lower) THEN 3
        ELSE IF emotion = "severe_distress" THEN 3
        ELSE IF /\ emotion \in {"sadness", "anxiety"}
                /\ AnyKeywordIn(low_risk_keywords, text_lower) THEN 1
        ELSE IF DEPRESSION_DATASETS.condition # None
             THEN Max(compare_with_depression_dataset(text), 0)
        ELSE 0

calculate_risk_score(text, emotion) ==
    LET text_lower == Lower(text)
    IN  IF AnyKeywordIn(high_risk_keywords, text_lower) THEN 3
        ELSE IF AnyKeywordIn(medium_risk_keywords, text_lower) THEN 2
        ELSE IF emotion = "severe_distress" THEN 3
        ELSE IF /\ emotion \in {"sadness", "anxiety"}
                /\ AnyKeywordIn(low_risk_keywords, text_lower) THEN 1
        ELSE IF DEPRESSION_DATASETS.condition # None
             THEN Max(compare_with_depression_dataset(text), 0)
        ELSE 0

(***************************************************************************)
(* src/emotions.py: the remote classifier.  What requests.post and         *)
(* response.json() give is the environment's choice, one of HFReplies.     *)
(***************************************************************************)
\* requests.post raises (timeout, connection error)
PostRaises == [raises |-> TRUE]

\* requests.post returns a response with this status and this body
Response(code, body) == [raises |-> FALSE, status_code |-> code, body |-> body]

\* bodies of a response: not JSON at all (response.json() raises); the
\* empty list []; a list of label/score objects [{..}, ..] instead of a
\* list of such lists; and the documented [[{..}, ..]]
BodyInvalid       == [shape |-> "invalid"]
BodyEmpty         == [shape |-> "empty"]
BodyFlat          == [shape |-> "flat"]
BodyNested(items) == [shape |-> "nested", items |-> items]

HFReplies ==
    { PostRaises,
      Response(503, BodyInvalid),
      Response(200, BodyInvalid),
      Response(200, BodyEmpty),
      Response(200, BodyFlat),
      Response(200, BodyNested(<<>>)),
      Response(200, BodyNested(<< [label |-> "joy",     score |-> Float(950)],
                                  [label |-> "sadness", score |-> Float(30)] >>)),
      Response(200, BodyNested(<< [label |-> "sadness", score |-> Float(600)],
                                  [label |-> "anger",   score |-> Float(600)] >>)),
      Response(200, BodyNested(<< [label |-> "fear",    score |-> Float(900)] >>)),
      Response(200, BodyNested(<< [label |-> "neutral", score |-> Float(800)] >>)),
      Response(200, BodyNested(<< [label |-> "joy",     score |-> None] >>)),
      Response(200, BodyNested(<< [label |-> "joy",     score |-> None],
                                  [label |-> "sadness", score |-> Float(30)] >>)) }

\* max(items, key=lambda x: x['score']): the first item of the largest score
MaxScoreItem(items) ==
    items[CHOOSE i \in 1..Len(items) :
              /\ \A j \in 1..Len(items) : items[j].score.milli <= items[i].score.milli
              /\ \A j \in 1..(i - 1) : items[j].score.milli < items[i].score.milli]

\* max() raises: no item (ValueError), or scores that do not compare
\* (TypeError: a null score met with any other score)
MaxRaises(items) ==
    \/ Len(items) = 0
    \/ Len(items) > 1 /\ \E i \in 1..Len(items) : ~IsNumber(items[i].score)

\* the number of POST requests one call of detect_emotion_huggingface sends
RemoteCalls == IF HUGGING_FACE_API_KEY THEN 1 ELSE 0

detect_emotion_huggingface(text, reply) ==
    IF ~HUGGING_FACE_API_KEY THEN None
    ELSE IF reply.raises THEN None                      \* except Exception
    ELSE IF reply.status_code # 200 THEN None
    ELSE IF reply.body.shape = "invalid" THEN None      \* except Exception
    ELSE IF reply.body.shape = "empty" THEN None        \* falls off the end
    ELSE IF reply.body.shape = "flat" THEN None         \* except Exception
    ELSE IF MaxRaises(reply.body.items) THEN None       \* except Exception
    ELSE LET top_emotion ==
                 IF Len(reply.body.items) = 1 THEN reply.body.items[1]
                 ELSE MaxScoreItem(reply.body.items)
         IN  [emotion      |-> top_emotion.label,
              confidence   |-> top_emotion.score,
              all_emotions |-> reply.body.items]

(***************************************************************************)
(* src/emotions.py: map_emotion_with_dataset and detect_emotion.           *)
(***************************************************************************)
\* the rows of the corpus looked at, src/emotions.py:197
EnhanceSampleRows == 1000

\* similar_entries: the rows with both columns that share a word with text
SimilarEntries(words, rows) ==
    LET overlap(row) == Cardinality(words \cap WordSet(row.text))
    IN  SelectSeq([i \in 1..Len(rows) |->
                      IF "text" \in DOMAIN rows[i] /\ "emotion" \in DOMAIN rows[i]
                      THEN [emotion |-> rows[i].emotion, overlap |-> overlap(rows[i])]
                      ELSE [emotion |-> "", overlap |-> 0]],
                  LAMBDA e : e.overlap > 0)

\* emotion_counts[emotion]: the overlaps of the similar entries of a label
RECURSIVE EmotionCount(_, _)
EmotionCount(entries, emotion) ==
    IF entries = <<>> THEN 0
    ELSE (IF Head(entries).emotion = emotion THEN Head(entries).overlap ELSE 0)
         + EmotionCount(Tail(entries), emotion)

\* sum(emotion_counts.values())
RECURSIVE TotalOverlap(_)
TotalOverlap(entries) ==
    IF entries = <<>> THEN 0
    ELSE Head(entries).overlap + TotalOverlap(Tail(entries))

\* max(emotion_counts, key=emotion_counts.get): the label of the largest
\* count, the one that entered the dict first among equals
MaxByCount(entries) ==
    LET count(i) == EmotionCount(entries, entries[i].emotion)
    IN  entries[CHOOSE i \in 1..Len(entries) :
                    /\ \A j \in 1..Len(entries) : count(j) <= count(i)
                    /\ \A j \in 1..(i - 1) : count(j) < count(i)].emotion

map_emotion_with_dataset_off(text, detected_emotion) ==
    [emotion |-> detected_emotion, enhanced |-> FALSE]

map_emotion_with_dataset(text, detected_emotion) ==
    IF GOEMOTIONS_DATA = None
    THEN [emotion |-> detected_emotion, enhanced |-> FALSE]
    ELSE LET words == WordSet(text)
             similar_entries ==
                 SimilarEntries(words, HeadRows(GOEMOTIONS_DATA, EnhanceSampleRows))
         IN  IF similar_entries # <<>>
             THEN LET dataset_emotion == MaxByCount(similar_entries)
                      total == EmotionCount(similar_entries, dataset_emotion)
                      all   == TotalOverlap(similar_entries)
                  IN  [emotion            |-> dataset_emotion,
                       original_emotion   |-> detected_emotion,
                       enhanced           |-> TRUE,
                       dataset_confidence |-> Float((total * 1000) \div all)]
             ELSE [emotion |-> detected_emotion, enhanced |-> FALSE]

\* dict.update
Update(d, e) ==
    [k \in DOMAIN d \cup DOMAIN e |-> IF k \in DOMAIN e THEN e[k] ELSE d[k]]

\* the keyword rules asked first, the remote classifier only for a text
\* that holds no keyword
detect_emotion_keyword_first(text, reply) ==
    LET rules  == detect_emotion_rule_based(text)
        keyword_hit == \E i \in 1..Len(emotion_keywords) :
                           AnyKeywordIn(emotion_keywords[i].keywords, Lower(text))
        remote == IF keyword_hit THEN None ELSE detect_emotion_huggingface(text, reply)
        result == IF remote = None THEN rules ELSE remote
        enhanced_result == map_emotion_with_dataset(text, result.emotion)
        final  == IF GOEMOTIONS_DATA # None /\ enhanced_result.enhanced
                  THEN Update(result, enhanced_result)
                  ELSE result
        calls  == IF keyword_hit THEN 0 ELSE RemoteCalls
    IN  IF IsNumber(final.confidence)
        THEN [raised |-> FALSE, result |-> final, remote_calls |-> calls]
        ELSE [raised |-> TRUE,  result |-> None,  remote_calls |-> calls]

\* detect_emotion(text), the remote reply being `reply`: the dict returned,
\* or raised = TRUE when the call ends in an exception
detect_emotion(text, reply) ==
    LET remote == detect_emotion_huggingface(text, reply)
        result == IF remote = None THEN detect_emotion_rule_based(text) ELSE remote
        enhanced_result == map_emotion_with_dataset(text, result.emotion)
        final  == IF GOEMOTIONS_DATA # None /\ enhanced_result.enhanced
                  THEN Update(result, enhanced_result)
                  ELSE result
    IN  \* the closing print formats result.get('confidence', 0) with :.2f
        IF IsNumber(final.confidence)
        THEN [raised |-> FALSE, result |-> final, remote_calls |-> RemoteCalls]
        ELSE [raised |-> TRUE,  result |-> None,  remote_calls |-> RemoteCalls]

(***************************************************************************)
(* src/responses.py: generate_response.  A reply is the sequence of the    *)
(* fragments concatenated into it, so that "the reply contains the block"  *)
(* is "the block's fragments occur in it, contiguous and in order".        *)
(***************************************************************************)
responses_severe_distress ==
    << "I hear that you're going through an incredibly difficult time. Your feelings are valid, and you don't have to face this alone.",
       "What you're experiencing sounds overwhelming, and I'm genuinely concerned. Please know that you deserve support and care.",
       "I want you to know that your life matters, even when it doesn't feel that way. These feelings can change, and help is available." >>

responses_sadness ==
    << "I'm sorry you're feeling this way. It's okay to feel sad - your emotions are completely valid.",
       "It sounds like you're going through a tough time. Remember, it's okay not to be okay sometimes.",
       "I hear you, and I want you to know that these feelings won't last forever. Take things one moment at a time.",
       "Sadness is a natural human emotion. Be gentle with yourself during this difficult time." >>

responses_anxiety ==
    << "It sounds like you're feeling anxious. Take a deep breath with me - in for 4, hold for 4, out for 4.",
       "Anxiety can feel overwhelming, but you're not alone in this. Let's take things one step at a time.",
       "I understand you're worried. Sometimes it helps to focus on what you can control right now.",
       "Your anxiety is valid. Would it help to talk about what's worrying you?" >>

responses_anger ==
    << "I can sense your frustration. It's okay to feel angry - it's a valid emotion.",
       "It sounds like something has really upset you. Would it help to talk about what happened?",
       "Your feelings of anger are understandable. Let's work through this together.",
       "Anger often tells us that something important to us has been affected. I'm here to listen." >>

responses_joy ==
    << "That's wonderful to hear! I'm so glad you're feeling positive.",
       "Your happiness is contagious! What's making you feel so good today?",
       "I love hearing this! It's great that you're in a good place right now.",
       "That's amazing! Celebrating the good moments with you!" >>

responses_neutral ==
    << "Thank you for sharing. I'm here to listen. How else are you feeling?",
       "I'm listening. Feel free to share whatever is on your mind.",
       "I'm here for you. What would you like to talk about?",
       "I appreciate you opening up. Tell me more about what's going on." >>

\* responses.get(emotion, responses['neutral'])
EmotionResponses(emotion) ==
    CASE emotion = "severe_distress" -> responses_severe_distress
      [] emotion = "sadness"         -> responses_sadness
      [] emotion = "anxiety"         -> responses_anxiety
      [] emotion = "anger"           -> responses_anger
      [] emotion = "joy"             -> responses_joy
      [] OTHER                       -> responses_neutral

PersistentSadness ==
    "I've noticed you've been feeling down for a while. Have you considered talking to someone you trust about this?"

PersistentAnxiety ==
    "I notice anxiety has been coming up often. Would it help to explore some coping strategies together?"

\* the five strings appended at risk_score >= 7, src/responses.py:243-247
CrisisBlock ==
    << "I'm genuinely concerned about you. Please consider reaching out for professional support:",
       "National Suicide Prevention Lifeline: 988 (24/7)",
       "Crisis Text Line: Text HOME to 741741",
       "Emergency Services: 911",
       "You deserve help, and these resources are here for you anytime." >>

ProfessionalHelp ==
    "If you're struggling, please consider talking to a mental health professional. They can provide support tailored to your needs."

closings ==
    << "Remember: You are not alone in this.",
       "I'm here with you. One step at a time.",
       "Your feelings matter, and so do you." >>

HighRiskThreshold   == 7
MediumRiskThreshold == 4
\* conversation_history[-5:] and the count that makes an emotion persistent
RecentWindow    == 5
PersistentCount == 3

\* random.choice(seq), the generator's draw being k
Choice(seq, k) == seq[(k % Len(seq)) + 1]

\* the draws of one generate_response call: one per random.choice
Draws == [template : 0..3, closing : 0..2]

\* seq[-n:]
LastN(seq, n) == SubSeq(seq, Max(Len(seq) - n, 0) + 1, Len(seq))

\* list.count(x)
Count(seq, x) == Cardinality({ i \in 1..Len(seq) : seq[i] = x })

\* the same without the test of the history's length
PatternAddendum_any_length(conversation_history) ==
    LET recent_emotions == LastN(conversation_history, RecentWindow)
        sad_count     == Count(recent_emotions, "sadness")
        anxiety_count == Count(recent_emotions, "anxiety")
    IN  IF sad_count >= PersistentCount THEN <<PersistentSadness>>
        ELSE IF anxiety_count >= PersistentCount THEN <<PersistentAnxiety>>
        ELSE <<>>

\* the context-aware follow-up: persistent sadness, else persistent anxiety
PatternAddendum(conversation_history) ==
    IF Len(conversation_history) > 3
    THEN LET recent_emotions == LastN(conversation_history, RecentWindow)
             sad_count     == Count(recent_emotions, "sadness")
             anxiety_count == Count(recent_emotions, "anxiety")
         IN  IF sad_count >= PersistentCount THEN <<PersistentSadness>>
             ELSE IF anxiety_count >= PersistentCount THEN <<PersistentAnxiety>>
             ELSE <<>>
    ELSE <<>>

RiskAddendum_strict(risk_score) ==
    IF risk_score > HighRiskThreshold THEN CrisisBlock
    ELSE IF risk_score >= MediumRiskThreshold THEN <<ProfessionalHelp>>
    ELSE <<>>

RiskAddendum_else_help(risk_score) ==
    IF risk_score >= HighRiskThreshold THEN CrisisBlock
    ELSE <<ProfessionalHelp>>

RiskAddendum(risk_score) ==
    IF risk_score >= HighRiskThreshold THEN CrisisBlock
    ELSE IF risk_score >= MediumRiskThreshold THEN <<ProfessionalHelp>>
    ELSE <<>>

ClosingAddendum(emotion, draw) ==
    IF emotion \in {"severe_distress", "sadness"}
    THEN <<Choice(closings, draw.closing)>>
    ELSE <<>>

generate_response(emotion, risk_score, conversation_history, draw) ==
    <<Choice(EmotionResponses(emotion), draw.template)>>
        \o PatternAddendum(conversation_history)
        \o RiskAddendum(risk_score)
        \o ClosingAddendum(emotion, draw)

\* the fragments of block occur in reply, contiguous and in order
ContainsBlock(reply, block) ==
    \E i \in 0..(Len(reply) - Len(block)) :
        SubSeq(reply, i + 1, i + Len(block)) = block

(***************************************************************************)
(* The pure functions applied to drawn inputs.  `last` holds the inputs    *)
(* drawn by Init and then what the call returned.                          *)
(***************************************************************************)
\* emotion categories passed to calculate_risk_score and generate_response:
\* the Lexicon's, and labels only the remote model or the corpus produce
Categories ==
    {"severe_distress", "sadness", "anxiety", "anger", "joy", "neutral", "fear"}

EnvInit ==
    /\ HUGGING_FACE_API_KEY \in BOOLEAN
    /\ GOEMOTIONS_DATA \in GoEmotionsLoads
    /\ DEPRESSION_DATASETS \in DepressionLoads

EnvUnchanged ==
    UNCHANGED << HUGGING_FACE_API_KEY, GOEMOTIONS_DATA, DEPRESSION_DATASETS >>

InitDetect ==
    /\ EnvInit
    /\ user_sessions = [s \in {"s1", "s2"} |-> None]
    /\ cookies = {}
    /\ replies = << >>
    /\ in_flight = NoRequests
    /\ \E text \in Texts : last = [op |-> "input", text |-> text]

\* result = detect_emotion(text), the remote reply being `reply`
DetectEmotion(reply) ==
    /\ last.op = "input"
    /\ \E d \in {detect_emotion(last.text, reply)} :
           last' = [op           |-> "detect_emotion",
                    text         |-> last.text,
                    reply        |-> reply,
                    remote_calls |-> d.remote_calls,
                    raised       |-> d.raised,
                    result       |-> d.result]
    /\ EnvUnchanged
    /\ UNCHANGED in_flight
    /\ UNCHANGED << user_sessions, cookies, replies >>

\* result = detect_emotion_rule_based(text)
RuleBased ==
    /\ last.op = "input"
    /\ last' = [op     |-> "detect_emotion_rule_based",
                text   |-> last.text,
                result |-> detect_emotion_rule_based(last.text)]
    /\ EnvUnchanged
    /\ UNCHANGED in_flight
    /\ UNCHANGED << user_sessions, cookies, replies >>

\* increment = calculate_risk_score(text, emotion)
RiskScore(emotion) ==
    /\ last.op = "input"
    /\ last' = [op        |-> "calculate_risk_score",
                text      |-> last.text,
                emotion   |-> emotion,
                increment |-> calculate_risk_score(last.text, emotion)]
    /\ EnvUnchanged
    /\ UNCHANGED in_flight
    /\ UNCHANGED << user_sessions, cookies, replies >>

NextDetect ==
    \/ RuleBased
    \/ \E reply \in HFReplies : DetectEmotion(reply)
    \/ \E emotion \in Categories : RiskScore(emotion)

SpecDetect == InitDetect /\ [][NextDetect]_vars

\* the emotion histories generate_response is called with
Histories ==
    { << >>,
      << "sadness", "sadness", "sadness" >>,
      << "sadness", "sadness", "sadness", "joy" >>,
      << "anxiety", "joy", "anxiety", "anxiety" >>,
      << "sadness", "anxiety", "sadness", "anxiety", "sadness", "anxiety" >>,
      << "joy", "sadness", "sadness", "anxiety", "anxiety", "sadness" >>,
      << "sadness", "sadness", "sadness", "joy", "joy", "joy", "joy", "joy" >>,
      << "neutral", "anger", "joy", "fear", "neutral" >> }

\* the number of consecutive calls made with the same inputs
MaxCalls == 2

RiskScores == 0..10

InitCompose ==
    /\ HUGGING_FACE_API_KEY = FALSE
    /\ GOEMOTIONS_DATA = None
    /\ DEPRESSION_DATASETS = [control |-> None, condition |-> None]
    /\ user_sessions = [s \in {"s1", "s2"} |-> None]
    /\ cookies = {}
    /\ replies = << >>
    /\ in_flight = NoRequests
    /\ \E emotion \in Categories, risk_score \in RiskScores, history \in Histories :
           last = [op                   |-> "generate_response",
                   emotion              |-> emotion,
                   risk_score           |-> risk_score,
                   conversation_history |-> history]

\* one more generate_response(emotion, risk_score, conversation_history)
Compose(draw) ==
    /\ last.op = "generate_response"
    /\ Len(replies) < MaxCalls
    /\ replies' = Append(replies,
                         generate_response(last.emotion, last.risk_score,
                                           last.conversation_history, draw))
    /\ EnvUnchanged
    /\ UNCHANGED in_flight
    /\ UNCHANGED << user_sessions, cookies, last >>

NextCompose == \E draw \in Draws : Compose(draw)

SpecCompose == InitCompose /\ [][NextCompose]_vars

(***************************************************************************)
(* src/app.py: the session store and the request handlers.  The Flask      *)
(* session cookie of a request is the id it carries, NoCookie when the     *)
(* client was never given one; timestamps are not modelled.                *)
(***************************************************************************)
SessionIds == {"s1", "s2"}
NoCookie   == ""

RiskCap        == 10
EmotionsCap    == 20
MoodHistoryLen == 10

NewSession == [messages |-> << >>, emotions |-> << >>, risk_score |-> 0]

\* session_id in user_sessions
Known(session_id) == session_id \in SessionIds /\ user_sessions[session_id] # None

\* secrets.token_hex(8): an id no session has yet
FreshIds == { s \in SessionIds : user_sessions[s] = None }

\* the chat turns the sessions hold
RECURSIVE TurnsOf(_)
TurnsOf(ids) ==
    IF ids = {} THEN 0
    ELSE LET id == CHOOSE id \in ids : TRUE
         IN  (IF user_sessions[id] = None THEN 0 ELSE Len(user_sessions[id].messages))
             + TurnsOf(ids \ {id})

TurnsStored == TurnsOf(SessionIds)

AddRisk_unclamped(risk_score, risk_increment) == risk_score + risk_increment

AddRisk_overwrite(risk_score, risk_increment) == Min(risk_increment, 10)

\* user_data['risk_score'] = min(user_data['risk_score'] + risk_increment, 10)
AddRisk(risk_score, risk_increment) == Min(risk_score + risk_increment, RiskCap)

\* append, then keep the first 20
AppendEmotion_keep_first(emotions, emotion) ==
    SubSeq(Append(emotions, emotion), 1, Min(Len(emotions) + 1, 20))

\* append, then keep only the last 20
AppendEmotion(emotions, emotion) == LastN(Append(emotions, emotion), EmotionsCap)

\* a reply composed from the history with this turn's emotion already in it
ComposedReply_after_append(detected_emotion, risk_score, user_data, draw) ==
    generate_response(detected_emotion, risk_score,
                      Append(user_data.emotions, detected_emotion), draw)

\* STEP 3 of chat: generate_response(detected_emotion,
\* user_data['risk_score'], user_data['emotions']), called after the risk
\* update of STEP 2 (risk_score) and before the appends of STEP 4
ComposedReply(detected_emotion, risk_score, user_data, draw) ==
    generate_response(detected_emotion, risk_score, user_data.emotions, draw)

\* GET /
Index(cookie) ==
    /\ IF cookie = NoCookie
       THEN \E id \in FreshIds :
                /\ user_sessions' = [user_sessions EXCEPT ![id] = NewSession]
                /\ cookies' = cookies \cup {id}
                /\ last' = [op |-> "index", status |-> 200]
       ELSE /\ UNCHANGED << user_sessions, cookies >>
            /\ last' = [op |-> "index", status |-> 200]
    /\ EnvUnchanged
    /\ UNCHANGED in_flight
    /\ UNCHANGED replies

\* POST /api/chat with {"message": message}, in a store that holds fewer
\* than limit turns.  A local variable of the handler is a bound variable
\* here: it is computed once, where it is assigned.  The request's message
\* is kept with the outcome of the call.
ChatWithin(limit, cookie, message, reply, draw) ==
    /\ \E user_message \in {Strip(message)} :
       IF user_message = << >>
       THEN /\ last' = [op |-> "chat", status |-> 400, request |-> message]
            /\ UNCHANGED user_sessions
       ELSE \E session_id \in (IF cookie = NoCookie THEN FreshIds ELSE {cookie}) :
            \E user_data \in {IF Known(session_id) THEN user_sessions[session_id]
                              ELSE NewSession} :
            /\ TurnsStored < limit
            /\ \E detected \in {detect_emotion(user_message, reply)} :
               IF detected.raised
               THEN \* the session was created before the exception
                    /\ user_sessions' = [user_sessions EXCEPT ![session_id] = user_data]
                    /\ last' = [op |-> "chat", status |-> 500, request |-> message]
               ELSE \E detected_emotion \in {detected.result.emotion} :
                    \E risk_increment \in
                           {calculate_risk_score(user_message, detected_emotion)} :
                    \E risk_score \in {AddRisk(user_data.risk_score, risk_increment)} :
                    \E bot_response \in
                           {ComposedReply(detected_emotion, risk_score,
                                          user_data, draw)} :
                    \E emotions \in {AppendEmotion(user_data.emotions, detected_emotion)} :
                    /\ user_sessions' =
                           [user_sessions EXCEPT ![session_id] =
                               [messages   |-> Append(user_data.messages,
                                                   [user    |-> user_message,
                                                    bot     |-> bot_response,
                                                    emotion |-> detected_emotion]),
                                emotions   |-> emotions,
                                risk_score |-> risk_score]]
                    /\ last' = [op             |-> "chat",
                                status         |-> 200,
                                request        |-> message,
                                session_id     |-> session_id,
                                message        |-> user_message,
                                response       |-> bot_response,
                                emotion        |-> detected_emotion,
                                confidence     |-> detected.result.confidence,
                                risk_score     |-> risk_score,
                                mood_history   |-> LastN(emotions, MoodHistoryLen),
                                risk_before    |-> user_data.risk_score,
                                risk_increment |-> risk_increment,
                                history_passed |-> user_data.emotions]
    /\ EnvUnchanged
    /\ UNCHANGED in_flight
    /\ UNCHANGED << cookies, replies >>

\* a chat request while the sessions hold fewer than MaxTurns turns
Chat(cookie, message, reply, draw) ==
    ChatWithin(MaxTurns, cookie, message, reply, draw)

\* GET /api/mood-history
MoodHistory(cookie) ==
    /\ last' = [op |-> "mood_history", status |-> 200,
                mood_history |-> IF cookie # NoCookie /\ Known(cookie)
                                 THEN LastN(user_sessions[cookie].emotions, MoodHistoryLen)
                                 ELSE << >>]
    /\ EnvUnchanged
    /\ UNCHANGED in_flight
    /\ UNCHANGED << user_sessions, cookies, replies >>

\* a reset that clears every session of the store
Reset_everyone(cookie) ==
    /\ IF cookie # NoCookie /\ Known(cookie)
       THEN user_sessions' = [id \in SessionIds |->
                                 IF user_sessions[id] = None THEN None ELSE NewSession]
       ELSE UNCHANGED user_sessions
    /\ last' = [op |-> "reset", status |-> 200, session_id |-> cookie]
    /\ EnvUnchanged
    /\ UNCHANGED in_flight
    /\ UNCHANGED << cookies, replies >>

\* POST /api/reset; the session id the request carried is kept with the
\* outcome of the call
Reset(cookie) ==
    /\ IF cookie # NoCookie /\ Known(cookie)
       THEN user_sessions' = [user_sessions EXCEPT ![cookie] = NewSession]
       ELSE UNCHANGED user_sessions
    /\ last' = [op |-> "reset", status |-> 200, session_id |-> cookie]
    /\ EnvUnchanged
    /\ UNCHANGED in_flight
    /\ UNCHANGED << cookies, replies >>

\* the messages, remote replies and random draws of the chat requests
ChatMessages ==
    { <<"I"," ","w","a","n","t"," ","t","o"," ","E","N","D"," ","i","t"," ","a","l","l">>,
      <<" "," ","s","a","d"," ","a","n","d"," ","l","o","n","e","l","y"," ">>,
      <<"o","k","a","y">>,
      <<" "," "," ">> }

ChatReplies ==
    { PostRaises,
      Response(200, BodyNested(<< [label |-> "joy", score |-> None] >>)) }

ChatDraws == { [template |-> 1, closing |-> 2] }

Init ==
    /\ HUGGING_FACE_API_KEY \in BOOLEAN
    /\ GOEMOTIONS_DATA = None
    /\ DEPRESSION_DATASETS \in
           { [control |-> None,          condition |-> None],
             [control |-> ControlCorpus, condition |-> ConditionCorpus] }
    /\ user_sessions = [s \in SessionIds |-> None]
    /\ cookies = {}
    /\ replies = << >>
    /\ in_flight = NoRequests
    /\ last = [op |-> "start"]

Next ==
    \/ \E cookie \in cookies \cup {NoCookie} : Index(cookie)
    \/ \E cookie \in cookies \cup {NoCookie}, message \in ChatMessages,
          reply \in ChatReplies, draw \in ChatDraws :
           Chat(cookie, message, reply, draw)
    \/ \E cookie \in cookies \cup {NoCookie} : MoodHistory(cookie)
    \/ \E cookie \in cookies \cup {NoCookie} : Reset(cookie)

Spec == Init /\ [][Next]_vars

\* The server after a restart: the store is empty again, while a browser
\* still holds the cookie of a session of the earlier run.
InitRestarted ==
    /\ HUGGING_FACE_API_KEY = FALSE
    /\ GOEMOTIONS_DATA = None
    /\ DEPRESSION_DATASETS = [control |-> None, condition |-> None]
    /\ user_sessions = [s \in SessionIds |-> None]
    /\ cookies = {"s1"}
    /\ replies = << >>
    /\ in_flight = NoRequests
    /\ last = [op |-> "start"]

SpecRestarted == InitRestarted /\ [][Next]_vars

\* One browser in a long conversation: the page is loaded once, then chat
\* turns and resets follow.  Only the first MaxVariedTurns turns of the
\* session draw their message freely; the later ones send "okay".
MaxLongTurns   == 22
MaxVariedTurns == 5

LongMessages ==
    { <<"I"," ","w","a","n","t"," ","t","o"," ","E","N","D"," ","i","t"," ","a","l","l">>,
      <<" "," ","s","a","d"," ","a","n","d"," ","l","o","n","e","l","y"," ">>,
      <<"o","k","a","y">> }

InitLong ==
    /\ HUGGING_FACE_API_KEY = FALSE
    /\ GOEMOTIONS_DATA = None
    /\ DEPRESSION_DATASETS \in
           { [control |-> None,          condition |-> None],
             [control |-> ControlCorpus, condition |-> ConditionCorpus] }
    /\ user_sessions = [s \in SessionIds |-> None]
    /\ cookies = {}
    /\ replies = << >>
    /\ in_flight = NoRequests
    /\ last = [op |-> "start"]

NextLong ==
    \/ cookies = {} /\ Index(NoCookie)
    \/ \E cookie \in cookies, message \in LongMessages, draw \in ChatDraws :
           /\ (TurnsStored >= MaxVariedTurns => message = <<"o","k","a","y">>)
           /\ ChatWithin(MaxLongTurns, cookie, message, PostRaises, draw)
    \/ \E cookie \in cookies : Reset(cookie)

SpecLong == InitLong /\ [][NextLong]_vars

(***************************************************************************)
(* Properties.                                                             *)
(***************************************************************************)
\* the text holds a high-severity phrase, in any letter case
HasHighRiskKeyword(text) == AnyKeywordIn(high_risk_keywords, Lower(text))

\* the text holds a phrase of one of the three risk keyword lists
HasRiskKeyword(text) ==
    \/ AnyKeywordIn(high_risk_keywords, Lower(text))
    \/ AnyKeywordIn(medium_risk_keywords, Lower(text))
    \/ AnyKeywordIn(low_risk_keywords, Lower(text))

\* a fragment of the crisis block or the professional-help suggestion
IsRiskFragment(fragment) ==
    \/ fragment = ProfessionalHelp
    \/ \E i \in 1..Len(CrisisBlock) : fragment = CrisisBlock[i]

\* the risk_score a chat turn finds in its session: 0 in a session it creates
RiskOf(sessions, id) == IF sessions[id] = None THEN 0 ELSE sessions[id].risk_score

\* C1: over every chat turn, of every session, the session's risk_score does
\* not decrease, and after the turn it lies in 0..10.
C1_RiskMonotoneAndBounded ==
    [][ last'.op = "chat" =>
            \A id \in SessionIds :
                user_sessions'[id] # None =>
                    /\ RiskOf(user_sessions, id) <= user_sessions'[id].risk_score
                    /\ user_sessions'[id].risk_score \in 0..10 ]_vars

\* a turn whose increment would take the score past 10 left it at 10
C1_Witness ==
    /\ last.op = "chat"
    /\ last.status = 200
    /\ last.risk_before + last.risk_increment > 10
    /\ last.risk_score = 10

\* C2: a text that holds a high-severity phrase scores an increment of 3,
\* whatever emotion is passed in and whatever corpora are loaded.
C2_HighSeverityScoresThree ==
    (last.op = "calculate_risk_score" /\ HasHighRiskKeyword(last.text))
        => last.increment = 3

\* a high-severity text that also holds a medium-severity phrase, scored
\* with a mild emotion and both corpora loaded
C2_Witness ==
    /\ last.op = "calculate_risk_score"
    /\ HasHighRiskKeyword(last.text)
    /\ AnyKeywordIn(medium_risk_keywords, Lower(last.text))
    /\ last.emotion = "joy"
    /\ DEPRESSION_DATASETS.condition # None
    /\ DEPRESSION_DATASETS.control # None
    /\ last.increment = 3

\* C3: every reply composed at a cumulative risk of 7 or more holds the
\* crisis-resource block, the same five fragments in the same order.
C3_CrisisBlockAtHighRisk ==
    (last.op = "generate_response" /\ last.risk_score >= 7)
        => \A i \in 1..Len(replies) : ContainsBlock(replies[i], CrisisBlock)

\* two different replies at risk 7, both holding the block
C3_Witness ==
    /\ last.op = "generate_response"
    /\ last.risk_score = 7
    /\ Len(replies) = 2
    /\ replies[1] # replies[2]
    /\ ContainsBlock(replies[1], CrisisBlock)
    /\ ContainsBlock(replies[2], CrisisBlock)

\* C4: no reply composed at a cumulative risk below 4 holds a fragment of
\* the crisis-resource block or the professional-help suggestion.
C4_NoRiskAddendumAtLowRisk ==
    (last.op = "generate_response" /\ last.risk_score < 4)
        => \A i \in 1..Len(replies) :
               \A j \in 1..Len(replies[i]) : ~IsRiskFragment(replies[i][j])

\* a reply at risk 3 to a persistently sad history: the pattern sentence and
\* a closing are appended, no risk addendum is
C4_Witness ==
    /\ last.op = "generate_response"
    /\ last.risk_score = 3
    /\ last.emotion = "sadness"
    /\ Len(replies) >= 1
    /\ Len(replies[1]) = 3
    /\ replies[1][2] = PersistentSadness

\* a session that took exactly three turns since it was created or reset:
\* two with a high-severity phrase, then one classified neutral whose text
\* holds no risk keyword
C5_Scenario(id) ==
    /\ user_sessions[id] # None
    /\ Len(user_sessions[id].messages) = 3
    /\ HasHighRiskKeyword(user_sessions[id].messages[1].user)
    /\ HasHighRiskKeyword(user_sessions[id].messages[2].user)
    /\ user_sessions[id].messages[3].emotion = "neutral"
    /\ ~HasRiskKeyword(user_sessions[id].messages[3].user)

\* what the corpus comparison adds for a text no keyword rule scores
CorpusIncrement(text) ==
    IF DEPRESSION_DATASETS.condition = None THEN 0
    ELSE compare_with_depression_dataset(text)

\* C5 as claimed: after the scenario the risk is 6, and the third reply holds
\* the professional-help suggestion and not the crisis block.
C5_ScenarioAsClaimed ==
    \A id \in SessionIds :
        C5_Scenario(id) =>
            /\ user_sessions[id].risk_score = 6
            /\ ContainsBlock(user_sessions[id].messages[3].bot, <<ProfessionalHelp>>)
            /\ ~ContainsBlock(user_sessions[id].messages[3].bot, CrisisBlock)

\* C5: after the scenario the risk is 6 plus what the corpus comparison adds
\* for the third text; when that is 0 the third reply holds the
\* professional-help suggestion and not the crisis block, and when it is 1 or
\* 2 the reply holds the crisis block instead.
C5_ScenarioWithCorpus ==
    \A id \in SessionIds :
        C5_Scenario(id) =>
            LET third == user_sessions[id].messages[3]
                added == CorpusIncrement(third.user)
            IN  /\ user_sessions[id].risk_score = 6 + added
                /\ added = 0 =>
                       /\ ContainsBlock(third.bot, <<ProfessionalHelp>>)
                       /\ ~ContainsBlock(third.bot, CrisisBlock)
                /\ added > 0 =>
                       /\ ContainsBlock(third.bot, CrisisBlock)
                       /\ ~ContainsBlock(third.bot, <<ProfessionalHelp>>)

\* the scenario ran and the third turn added nothing
C5_Witness ==
    \E id \in SessionIds :
        /\ C5_Scenario(id)
        /\ last.op = "chat"
        /\ last.status = 200
        /\ last.risk_increment = 0
        /\ user_sessions[id].risk_score = 6
        /\ last.response = user_sessions[id].messages[3].bot
        /\ ContainsBlock(last.response, <<ProfessionalHelp>>)

\* the Lexicon categories a keyword of which the text holds
KeywordCategories(text) ==
    { emotion_keywords[i].emotion : i \in
        { j \in 1..Len(emotion_keywords) :
            AnyKeywordIn(emotion_keywords[j].keywords, Lower(text)) } }

\* the rows of the loaded corpus, among those looked at, that have both
\* columns and share a word with the text
OverlappingRows(text) ==
    IF GOEMOTIONS_DATA = None THEN {}
    ELSE { i \in 1..Min(Len(GOEMOTIONS_DATA.rows), EnhanceSampleRows) :
             /\ "text" \in DOMAIN GOEMOTIONS_DATA.rows[i]
             /\ "emotion" \in DOMAIN GOEMOTIONS_DATA.rows[i]
             /\ WordSet(text) \cap WordSet(GOEMOTIONS_DATA.rows[i].text) # {} }

\* the words the text shares with the rows of one label, summed over rows
RECURSIVE LabelOverlap(_, _, _)
LabelOverlap(text, label, rows) ==
    IF rows = {} THEN 0
    ELSE LET i == CHOOSE i \in rows : TRUE
         IN  (IF GOEMOTIONS_DATA.rows[i].emotion = label
              THEN Cardinality(WordSet(text) \cap WordSet(GOEMOTIONS_DATA.rows[i].text))
              ELSE 0) + LabelOverlap(text, label, rows \ {i})

\* C6 as claimed: with no remote classifier in play, a text that holds a
\* Lexicon keyword is given a category a keyword of which it holds, whatever
\* the corpus says.
C6_KeywordBeatsCorpus ==
    (/\ last.op = "detect_emotion"
     /\ last.remote_calls = 0
     /\ KeywordCategories(last.text) # {})
        => last.result.emotion \in KeywordCategories(last.text)

\* C6: with no remote classifier in play the corpus step overrides the
\* keyword match.  When a labeled row of the loaded corpus shares a word with
\* the text, the result is a label of such a row whose summed overlap no
\* other label exceeds; only otherwise is it a category a keyword of which
\* the text holds, or neutral when it holds none.
C6_CorpusBeatsKeyword ==
    (last.op = "detect_emotion" /\ last.remote_calls = 0) =>
        LET rows == OverlappingRows(last.text)
        IN  IF rows # {}
            THEN /\ \E i \in rows : GOEMOTIONS_DATA.rows[i].emotion = last.result.emotion
                 /\ \A i \in rows :
                        LabelOverlap(last.text, GOEMOTIONS_DATA.rows[i].emotion, rows)
                            <= LabelOverlap(last.text, last.result.emotion, rows)
            ELSE IF KeywordCategories(last.text) # {}
                 THEN last.result.emotion \in KeywordCategories(last.text)
                 ELSE last.result.emotion = "neutral"

\* a text with sadness keywords only, classified anger by the corpus
C6_Witness ==
    /\ last.op = "detect_emotion"
    /\ last.remote_calls = 0
    /\ KeywordCategories(last.text) = {"sadness"}
    /\ OverlappingRows(last.text) # {}
    /\ last.result.emotion = "anger"

\* the keywords of a Lexicon category the text holds, counted
CategoryScore(text, emotion) ==
    LET i == CHOOSE i \in 1..Len(emotion_keywords) : emotion_keywords[i].emotion = emotion
    IN  KeywordScore(emotion_keywords[i].keywords, Lower(text))

MilderCategories == {"sadness", "anxiety", "anger", "joy", "neutral"}

\* C7 as claimed: a text that holds a severe_distress keyword is classified
\* severe_distress by the keyword rules, however many keywords of milder
\* categories it holds.
C7_SevereNeverShadowed ==
    (/\ last.op = "detect_emotion_rule_based"
     /\ CategoryScore(last.text, "severe_distress") > 0)
        => last.result.emotion = "severe_distress"

\* C7: a text that holds a severe_distress keyword is classified
\* severe_distress by the keyword rules exactly when no milder category has
\* strictly more of its keywords in the text (severe_distress wins the ties).
C7_SevereWinsTies ==
    (/\ last.op = "detect_emotion_rule_based"
     /\ CategoryScore(last.text, "severe_distress") > 0)
        => (last.result.emotion = "severe_distress"
              <=> \A e \in MilderCategories :
                      CategoryScore(last.text, e)
                          <= CategoryScore(last.text, "severe_distress"))

\* a tie between severe_distress and a milder category, won by severe_distress
C7_Witness ==
    /\ last.op = "detect_emotion_rule_based"
    /\ CategoryScore(last.text, "severe_distress") = 1
    /\ CategoryScore(last.text, "anger") = 1
    /\ last.result.emotion = "severe_distress"

\* the remote reply is one detect_emotion_huggingface can use: status 200
\* and a non-empty list of label/score objects whose scores compare
RemoteUsable(reply) ==
    /\ ~reply.raises
    /\ reply.status_code = 200
    /\ reply.body.shape = "nested"
    /\ Len(reply.body.items) > 0
    /\ \/ Len(reply.body.items) = 1
       \/ \A i \in 1..Len(reply.body.items) : reply.body.items[i].score # None

\* the remote reply's labels of the largest score
TopLabels(reply) ==
    { reply.body.items[i].label : i \in
        { j \in 1..Len(reply.body.items) :
            \A k \in 1..Len(reply.body.items) :
                Len(reply.body.items) = 1
                \/ reply.body.items[k].score.milli <= reply.body.items[j].score.milli } }

\* C8 as claimed: for a text that holds a Lexicon keyword the remote
\* classifier is not called, and the result is a keyword category of the
\* text, also when a credential is configured.
C8_KeywordBeforeRemote ==
    (/\ last.op = "detect_emotion"
     /\ KeywordCategories(last.text) # {}
     /\ GOEMOTIONS_DATA = None)
        => /\ last.remote_calls = 0
           /\ ~last.raised
           /\ last.result.emotion \in KeywordCategories(last.text)

\* C8: the steps run in the order remote, keyword, corpus.  With a
\* credential configured the remote classifier is called once for every
\* text, keyword or not; a usable remote reply decides the category (its
\* top label, unless the corpus step overrides it) and the keyword rules do
\* not run; the keyword rules run exactly when the remote step gives nothing.
C8_RemoteBeforeKeyword ==
    (last.op = "detect_emotion" /\ ~last.raised) =>
        /\ last.remote_calls = (IF HUGGING_FACE_API_KEY THEN 1 ELSE 0)
        /\ IF HUGGING_FACE_API_KEY /\ RemoteUsable(last.reply)
           THEN /\ "method" \notin DOMAIN last.result
                /\ OverlappingRows(last.text) = {}
                       => last.result.emotion \in TopLabels(last.reply)
           ELSE /\ "method" \in DOMAIN last.result
                /\ last.result.method = "rule_based"

\* a text with a sadness keyword, classified joy by the remote classifier
C8_Witness ==
    /\ last.op = "detect_emotion"
    /\ ~last.raised
    /\ HUGGING_FACE_API_KEY
    /\ last.remote_calls = 1
    /\ "sadness" \in KeywordCategories(last.text)
    /\ GOEMOTIONS_DATA = None
    /\ last.result.emotion = "joy"

\* the remote classifier is unavailable: no credential, an exception from
\* the request, a status other than 200, or a 200 reply whose body is empty
\* or malformed
RemoteUnavailable(reply) ==
    \/ ~HUGGING_FACE_API_KEY
    \/ reply.raises
    \/ reply.status_code # 200
    \/ reply.body.shape \in {"invalid", "empty", "flat"}
    \/ (reply.body.shape = "nested"
          /\ (Len(reply.body.items) = 0
                \/ \E i \in 1..Len(reply.body.items) :
                       reply.body.items[i].score = None))

\* C9: when the remote classifier is unavailable detect_emotion raises
\* nothing and returns what the local methods produce; without a credential
\* no request is sent, and no request is ever sent twice.
C9_UnavailableRemoteFallsBack ==
    (last.op = "detect_emotion" /\ RemoteUnavailable(last.reply)) =>
        /\ ~last.raised
        /\ "method" \in DOMAIN last.result
        /\ last.result.method = "rule_based"
        /\ last.remote_calls <= 1
        /\ ~HUGGING_FACE_API_KEY => last.remote_calls = 0

\* C10: consecutive generate_response calls with the same emotion, risk and
\* history, no more of them than the emotion's pool has templates, return
\* replies no two of which are identical.
C10_NoRepeatedReply ==
    (/\ last.op = "generate_response"
     /\ Len(replies) <= Len(EmotionResponses(last.emotion)))
        => \A i, j \in 1..Len(replies) : i # j => replies[i] # replies[j]

\* the sentences of the persistent-emotion addendum a reply holds, in order
PatternFragments(reply) ==
    SelectSeq(reply, LAMBDA f : f \in {PersistentSadness, PersistentAnxiety})

\* C13, as claimed: a reply holds an acknowledgment-of-pattern sentence
\* exactly when the last 5 entries of the history hold the current emotion
\* at least 3 times, and replies to the same inputs agree on it.
C13_AddendumFollowsCurrentEmotion ==
    last.op = "generate_response" =>
        \A i \in 1..Len(replies) :
            /\ PatternFragments(replies[i]) # << >>
                   <=> Count(LastN(last.conversation_history, 5), last.emotion) >= 3
            /\ PatternFragments(replies[i]) = PatternFragments(replies[1])

\* C13, amended: whatever the current emotion, a reply holds the sadness
\* sentence exactly when the history has more than 3 entries and its last 5
\* hold sadness at least 3 times, the anxiety sentence exactly when the
\* history has more than 3 entries and its last 5 hold anxiety at least 3
\* times and sadness fewer, and no such sentence otherwise; replies to the
\* same inputs agree on it.
C13_AddendumFollowsSadnessAnxiety ==
    last.op = "generate_response" =>
        LET h       == last.conversation_history
            sad     == Len(h) > 3 /\ Count(LastN(h, 5), "sadness") >= 3
            anxious == Len(h) > 3 /\ Count(LastN(h, 5), "anxiety") >= 3
        IN  \A i \in 1..Len(replies) :
                PatternFragments(replies[i]) =
                    IF sad THEN << PersistentSadness >>
                    ELSE IF anxious THEN << PersistentAnxiety >>
                    ELSE << >>

\* two replies to a joyful message after a persistently sad history hold the
\* sadness sentence, though the history holds no joy among its last 5
C13_Witness ==
    /\ last.op = "generate_response"
    /\ last.emotion = "joy"
    /\ Count(LastN(last.conversation_history, 5), "joy") = 0
    /\ Len(replies) = 2
    /\ replies[1] # replies[2]
    /\ PatternFragments(replies[1]) = << PersistentSadness >>
    /\ PatternFragments(replies[2]) = << PersistentSadness >>

\* the message holds nothing but whitespace
IsBlank(message) == \A i \in 1..Len(message) : message[i] \in WhiteSpace

\* C15: a chat request whose message is empty after trimming is answered
\* with the error status 400 and nothing of the pipeline's outcome (no
\* emotion, no risk, no reply; not the 500 of a classification that raised),
\* creates no session and leaves every session as it was.
C15_BlankMessageRejected ==
    [][ (last'.op = "chat" /\ IsBlank(last'.request)) =>
            /\ last'.status = 400
            /\ DOMAIN last' = {"op", "status", "request"}
            /\ user_sessions' = user_sessions
            /\ cookies' = cookies ]_vars

\* a blank message of three spaces was rejected while a session with a
\* raised risk existed and the remote classifier was configured
C15_Witness ==
    /\ last.op = "chat"
    /\ last.status = 400
    /\ Len(last.request) = 3
    /\ IsBlank(last.request)
    /\ HUGGING_FACE_API_KEY
    /\ \E id \in SessionIds :
           user_sessions[id] # None /\ user_sessions[id].risk_score >= 3
    /\ \E id \in SessionIds : user_sessions[id] = None

\* C14: a reset request that carries the id of an existing session sets
\* that session's risk_score to 0 and its messages and emotions to empty and
\* leaves every other session as it was; a reset that carries no id or the
\* id of no session changes no session; either reports success; and a step
\* after which an existing session's risk_score is lower is a reset of that
\* session.
C14_ResetFrame ==
    [][ /\ last'.op = "reset" =>
               /\ last'.status = 200
               /\ \A id \in SessionIds :
                      IF id = last'.session_id /\ user_sessions[id] # None
                      THEN /\ user_sessions'[id] # None
                           /\ user_sessions'[id].risk_score = 0
                           /\ user_sessions'[id].messages = << >>
                           /\ user_sessions'[id].emotions = << >>
                      ELSE user_sessions'[id] = user_sessions[id]
        /\ \A id \in SessionIds :
               (/\ user_sessions[id] # None
                /\ user_sessions'[id] # None
                /\ user_sessions'[id].risk_score < user_sessions[id].risk_score)
                   => (last'.op = "reset" /\ last'.session_id = id) ]_vars

\* one session was reset to risk 0 and empty lists while the other session
\* keeps its turns and its raised risk
C14_Witness ==
    /\ last.op = "reset"
    /\ last.status = 200
    /\ last.session_id \in SessionIds
    /\ user_sessions[last.session_id] = NewSession
    /\ \E id \in SessionIds \ {last.session_id} :
           /\ user_sessions[id] # None
           /\ user_sessions[id].risk_score >= 3
           /\ Len(user_sessions[id].messages) >= 1

\* the categories of the turns a session holds, in turn order; the messages
\* list is never cut and is emptied by a reset only
TurnCategories(user_data) ==
    [i \in 1..Len(user_data.messages) |-> user_data.messages[i].emotion]

\* C12: the emotions list of every session has at most 20 entries and is
\* the categories of its most recent min(t, 20) turns since its creation or
\* last reset, in turn order.
C12_EmotionsAreLastTwenty ==
    \A id \in SessionIds :
        user_sessions[id] # None =>
            LET turns == TurnCategories(user_sessions[id])
                t     == Len(turns)
                n     == IF t < 20 THEN t ELSE 20
            IN  /\ Len(user_sessions[id].emotions) = n
                /\ n <= 20
                /\ \A i \in 1..n : user_sessions[id].emotions[i] = turns[t - n + i]

\* after 22 turns whose first three categories differ, the two oldest have
\* been dropped and the list starts with the third
C12_Witness ==
    \E id \in SessionIds :
        /\ user_sessions[id] # None
        /\ Len(user_sessions[id].messages) = 22
        /\ Len(user_sessions[id].emotions) = 20
        /\ user_sessions[id].messages[1].emotion # user_sessions[id].messages[2].emotion
        /\ user_sessions[id].messages[2].emotion # user_sessions[id].messages[3].emotion
        /\ user_sessions[id].messages[1].emotion # user_sessions[id].messages[3].emotion
        /\ user_sessions[id].emotions[1] = user_sessions[id].messages[3].emotion

\* C16: in a completed chat turn the reply is composed for the risk that
\* already holds the turn's increment (it holds the crisis block exactly
\* when the session's risk after the turn is 7 or more, so also in the turn
\* that first brings it there) and from the emotion history of before the
\* turn (its pattern sentence is the one of the emotions list the turn
\* found), and only then the turn is appended to the messages and emotions.
C16_TurnOrder ==
    [][ (last'.op = "chat" /\ last'.status = 200) =>
            LET id      == last'.session_id
                before  == IF user_sessions[id] = None THEN NewSession
                           ELSE user_sessions[id]
                after   == user_sessions'[id]
                reply   == last'.response
                h       == before.emotions
                sad     == Len(h) > 3 /\ Count(LastN(h, 5), "sadness") >= 3
                anxious == Len(h) > 3 /\ Count(LastN(h, 5), "anxiety") >= 3
            IN  /\ after.risk_score >= before.risk_score
                /\ ContainsBlock(reply, CrisisBlock) <=> after.risk_score >= 7
                /\ (before.risk_score < 7 /\ after.risk_score >= 7)
                       => ContainsBlock(reply, CrisisBlock)
                /\ PatternFragments(reply) =
                       IF sad THEN << PersistentSadness >>
                       ELSE IF anxious THEN << PersistentAnxiety >>
                       ELSE << >>
                /\ Len(after.messages) = Len(before.messages) + 1
                /\ after.messages[Len(after.messages)].bot = reply
                /\ after.emotions[Len(after.emotions)] = last'.emotion ]_vars

\* a fifth turn, classified sadness after a history that holds sadness
\* twice, brought the risk from below 7 to 7: its reply holds the crisis
\* block and no pattern sentence, though the emotions list now holds
\* sadness three times among its last 5
C16_Witness ==
    /\ last.op = "chat"
    /\ last.status = 200
    /\ last.emotion = "sadness"
    /\ last.risk_before < 7
    /\ last.risk_score >= 7
    /\ ContainsBlock(last.response, CrisisBlock)
    /\ Len(last.history_passed) > 3
    /\ Count(LastN(last.history_passed, 5), "sadness") = 2
    /\ PatternFragments(last.response) = << >>
    /\ Count(LastN(user_sessions[last.session_id].emotions, 5), "sadness") = 3

(***************************************************************************)
(* src/app.py served by more than one thread (app.run serves each request  *)
(* in a thread of its own): two chat requests that carry the cookie of the *)
(* same session.  chat takes no lock, so the threads interleave between    *)
(* its statements, and inside a statement between the read of a field of   *)
(* the session and the write of the value computed from it.                *)
(***************************************************************************)
ConcurrentSession == "s1"

\* the session after one more chat turn served alone
TurnOn(user_data, message, draw) ==
    LET user_message     == Strip(message)
        detected_emotion == detect_emotion(user_message, PostRaises).result.emotion
        risk_increment   == calculate_risk_score(user_message, detected_emotion)
        risk_score       == AddRisk(user_data.risk_score, risk_increment)
        bot_response     == ComposedReply(detected_emotion, risk_score, user_data, draw)
    IN  [messages   |-> Append(user_data.messages,
                               [user    |-> user_message,
                                bot     |-> bot_response,
                                emotion |-> detected_emotion]),
         emotions   |-> AppendEmotion(user_data.emotions, detected_emotion),
         risk_score |-> risk_score]

\* the session after n turns of the same message
RECURSIVE Conversation(_, _)
Conversation(n, message) ==
    IF n = 0 THEN NewSession
    ELSE CHOOSE after \in { TurnOn(user_data, message, [template |-> 1, closing |-> 2]) :
                             user_data \in {Conversation(n - 1, message)} } : TRUE

\* the sessions the two requests can find: a new one, one whose emotions
\* list is full, one whose risk is near the cap
StartedSessions ==
    { NewSession,
      Conversation(EmotionsCap, <<"o","k","a","y">>),
      Conversation(3, <<"I"," ","w","a","n","t"," ","t","o"," ","E","N","D"," ","i","t"," ","a","l","l">>) }

InitConcurrent ==
    /\ HUGGING_FACE_API_KEY = FALSE
    /\ GOEMOTIONS_DATA = None
    /\ DEPRESSION_DATASETS = [control |-> None, condition |-> None]
    /\ cookies = {ConcurrentSession}
    /\ replies = <<>>
    /\ \E user_data \in StartedSessions :
           /\ user_sessions = [s \in SessionIds |->
                                  IF s = ConcurrentSession THEN user_data ELSE None]
           /\ last = [op |-> "concurrent", user_data |-> user_data]
    /\ \E messages \in [Threads -> LongMessages] :
           in_flight = [t \in Threads |-> [pc |-> "received", message |-> messages[t]]]

\* the session of the requests
Shared == user_sessions[ConcurrentSession]

\* the thread moves on with the locals it has set
Goto(t, locals) == in_flight' = [in_flight EXCEPT ![t] = locals]

ConcurrentFrame ==
    /\ EnvUnchanged
    /\ UNCHANGED << cookies, last, replies >>

\* lines 73-103: the message, the session looked up or created, STEP 1 and
\* the increment of STEP 2
ChatClassify(t) ==
    /\ in_flight[t].pc = "received"
    /\ \E user_message \in {Strip(in_flight[t].message)} :
       IF user_message = << >>
       THEN /\ Goto(t, [pc |-> "done", status |-> 400])
            /\ UNCHANGED user_sessions
       ELSE /\ user_sessions' =
                   IF Known(ConcurrentSession) THEN user_sessions
                   ELSE [user_sessions EXCEPT ![ConcurrentSession] = NewSession]
            /\ \E detected \in {detect_emotion(user_message, PostRaises)} :
               IF detected.raised
               THEN Goto(t, [pc |-> "done", status |-> 500])
               ELSE Goto(t, [pc               |-> "load_risk",
                             user_message     |-> user_message,
                             detected_emotion |-> detected.result.emotion,
                             confidence       |-> detected.result.confidence,
                             risk_increment   |->
                                 calculate_risk_score(user_message,
                                                      detected.result.emotion)])
    /\ ConcurrentFrame

\* line 104, right-hand side: user_data['risk_score'] is read
ChatLoadRisk(t) ==
    /\ in_flight[t].pc = "load_risk"
    /\ Goto(t, [in_flight[t] EXCEPT !.pc = "store_risk"]
                   @@ [risk_read |-> Shared.risk_score])
    /\ UNCHANGED user_sessions
    /\ ConcurrentFrame

\* line 104, assignment: min(the value read + risk_increment, 10) is stored
ChatStoreRisk(t) ==
    /\ in_flight[t].pc = "store_risk"
    /\ user_sessions' =
           [user_sessions EXCEPT ![ConcurrentSession].risk_score =
               AddRisk(in_flight[t].risk_read, in_flight[t].risk_increment)]
    /\ Goto(t, [in_flight[t] EXCEPT !.pc = "compose"])
    /\ ConcurrentFrame
\* lines 108-112, STEP 3
ChatCompose(t, draw) ==
    /\ in_flight[t].pc = "compose"
    /\ Goto(t, [in_flight[t] EXCEPT !.pc = "append_message"]
                   @@ [bot_response |->
                          ComposedReply(in_flight[t].detected_emotion,
                                        Shared.risk_score, Shared, draw)])
    /\ UNCHANGED user_sessions
    /\ ConcurrentFrame

\* lines 115-120: user_data['messages'].append(...)
ChatAppendMessage(t) ==
    /\ in_flight[t].pc = "append_message"
    /\ user_sessions' =
           [user_sessions EXCEPT ![ConcurrentSession].messages =
               Append(@, [user    |-> in_flight[t].user_message,
                          bot     |-> in_flight[t].bot_response,
                          emotion |-> in_flight[t].detected_emotion])]
    /\ Goto(t, [in_flight[t] EXCEPT !.pc = "append_emotion"])
    /\ ConcurrentFrame

\* line 121: user_data['emotions'].append(detected_emotion)
ChatAppendEmotion(t) ==
    /\ in_flight[t].pc = "append_emotion"
    /\ user_sessions' =
           [user_sessions EXCEPT ![ConcurrentSession].emotions =
               Append(@, in_flight[t].detected_emotion)]
    /\ Goto(t, [in_flight[t] EXCEPT !.pc = "check_cap"])
    /\ ConcurrentFrame

\* lines 124-125, right-hand side: the length is tested and the last 20
\* entries are copied
ChatLoadTail(t) ==
    /\ in_flight[t].pc = "check_cap"
    /\ IF Len(Shared.emotions) > EmotionsCap
       THEN Goto(t, [in_flight[t] EXCEPT !.pc = "store_tail"]
                        @@ [tail |-> LastN(Shared.emotions, EmotionsCap)])
       ELSE Goto(t, [in_flight[t] EXCEPT !.pc = "respond"])
    /\ UNCHANGED user_sessions
    /\ ConcurrentFrame

\* line 125, assignment: the copy becomes the session's emotions list
ChatStoreTail(t) ==
    /\ in_flight[t].pc = "store_tail"
    /\ user_sessions' =
           [user_sessions EXCEPT ![ConcurrentSession].emotions = in_flight[t].tail]
    /\ Goto(t, [in_flight[t] EXCEPT !.pc = "respond"])
    /\ ConcurrentFrame

\* lines 128-138, STEP 5: the response is built and returned
ChatRespond(t) ==
    /\ in_flight[t].pc = "respond"
    /\ Goto(t, [pc             |-> "done",
                status         |-> 200,
                message        |-> in_flight[t].user_message,
                response       |-> in_flight[t].bot_response,
                emotion        |-> in_flight[t].detected_emotion,
                confidence     |-> in_flight[t].confidence,
                risk_increment |-> in_flight[t].risk_increment,
                risk_score     |-> Shared.risk_score,
                mood_history   |-> LastN(Shared.emotions, MoodHistoryLen)])
    /\ UNCHANGED user_sessions
    /\ ConcurrentFrame

NextConcurrent ==
    \E t \in Threads :
        \/ ChatClassify(t)
        \/ ChatLoadRisk(t)
        \/ ChatStoreRisk(t)
        \/ \E draw \in ChatDraws : ChatCompose(t, draw)
        \/ ChatAppendMessage(t)
        \/ ChatAppendEmotion(t)
        \/ ChatLoadTail(t)
        \/ ChatStoreTail(t)
        \/ ChatRespond(t)

SpecConcurrent == InitConcurrent /\ [][NextConcurrent]_vars

\* both requests were answered with a reply
BothServed == \A t \in Threads : in_flight[t].pc = "done" /\ in_flight[t].status = 200

\* C11: when two chat requests for the same session were served
\* concurrently, no update is lost: the session's risk_score is what it
\* was, plus both increments, at most 10, and the messages and the emotions
\* lists hold the entries of both turns after the ones they held.
C11_NoLostUpdate ==
    BothServed =>
        LET before == last.user_data
            after  == Shared
            one    == in_flight["t1"]
            two    == in_flight["t2"]
            ends(seq, x, y) == /\ Len(seq) >= 2
                               /\ seq[Len(seq) - 1] = x
                               /\ seq[Len(seq)] = y
        IN  /\ after.risk_score =
                   Min(before.risk_score + one.risk_increment + two.risk_increment, 10)
            /\ Len(after.messages) = Len(before.messages) + 2
            /\ \/ ends(after.messages,
                       [user |-> one.message, bot |-> one.response, emotion |-> one.emotion],
                       [user |-> two.message, bot |-> two.response, emotion |-> two.emotion])
               \/ ends(after.messages,
                       [user |-> two.message, bot |-> two.response, emotion |-> two.emotion],
                       [user |-> one.message, bot |-> one.response, emotion |-> one.emotion])
            /\ \/ ends(after.emotions, one.emotion, two.emotion)
               \/ ends(after.emotions, two.emotion, one.emotion)

=============================================================================
